---- MODULE Spec2Model ----
(***************************************************************************)
(* Model of src/Nyztrade_client_manager.py: the SQLite store (clients,     *)
(* services, subscriptions, notifications), the queries over it, the       *)
(* Streamlit form handlers that write it, and the notification dispatcher  *)
(* NotificationManager.send_expiry_notifications.                          *)
(*                                                                         *)
(* Dates are day numbers (an ISO date string orders and compares as its    *)
(* day number does).  Strings are model strings; "" is the empty string,   *)
(* the only falsy one.  Table rows are records; a table is the set of its  *)
(* rows, and the notifications table is kept as the sequence of its rows   *)
(* in rowid order.                                                         *)
(***************************************************************************)
EXTENDS Integers, Sequences, FiniteSets, TLC

VARIABLES
    today,          \* the store's date('now'), as a day number
    clients,        \* table clients
    services,       \* table services
    subscriptions,  \* table subscriptions
    notifications,  \* table notifications, in rowid order
    seq,            \* sqlite_sequence: last AUTOINCREMENT id given, per table
    config,         \* ConfigManager.config of the running process
    ui,             \* what the last form handler showed (st.success / st.error ...)
    run,            \* the send_expiry_notifications call in progress, if any
    outbox,         \* the transport calls of the current (or last) call, with the answers
    runs,           \* number of send_expiry_notifications calls made so far
    heap,           \* the dict objects of the configuration trees
    mgr,            \* the ConfigManager objects: where their tree and their defaults are
    file,           \* the config file (config.json)
    call,           \* the last ConfigManager operation and how it ended
    used,           \* how many ConfigManager() and set calls were made
    clock,          \* the time of day, in polling intervals since midnight
    sched,          \* the scheduler process and its job
    fires           \* the dispatcher calls made by scheduler processes

appvars == <<today, clients, services, subscriptions, notifications, seq, config, ui,
             run, outbox, runs>>

cfgvars == <<heap, mgr, file, call, used>>

schedvars == <<clock, sched, fires>>

vars == <<appvars, cfgvars, schedvars>>

store == <<clients, services, subscriptions, notifications, seq>>

(***************************************************************************)
(* Bounds of the model.                                                    *)
(***************************************************************************)
MaxClients == 2     \* client rows ever inserted
MaxSubs == 2        \* subscription rows ever inserted
MaxNewServices == 1 \* service rows inserted by the settings form
MaxRuns == 2        \* dispatcher calls
MaxTicks == 1       \* midnights that pass
MaxDueClients == 1  \* client rows the dispatcher is run against
MaxDueSubs == 1     \* subscription rows the dispatcher is run against
MaxLoads == 2       \* ConfigManager objects ever created
MaxSets == 2        \* ConfigManager.set calls
MaxStarts == 2      \* starts of the scheduler process
DayLen == 3         \* polling intervals in a day

(***************************************************************************)
(* Program constants.                                                      *)
(***************************************************************************)
MessageLimit == 500   \* log_notification: message[:500]
MonthDays == 30       \* duration_days of the four monthly default services
YearDays == 365       \* duration_days of 'ANNUAL - All Services'
DefaultDaysBefore == 1 \* DEFAULT_CONFIG notifications.days_before_expiry
SendAt == 1            \* the polling interval that DEFAULT_CONFIG's send_time "09:00" starts

\* DEFAULT_CONFIG, the keys the modelled code reads.
DEFAULT_CONFIG ==
    [email         |-> [enabled |-> FALSE],
     whatsapp      |-> [enabled |-> FALSE],
     notifications |-> [days_before_expiry |-> DefaultDaysBefore, enabled |-> TRUE],
     business      |-> [name |-> "NYZTrade", contact_phone |-> "+91-9999999999",
                        contact_email |-> "support@nyztrade.com",
                        address |-> "Kerala, India"]]

\* init_database: the five rows inserted when the services table is empty.
default_services ==
    << [name |-> "EQUITY Premium", duration_days |-> MonthDays,
        description |-> "Advanced equity analysis and trading signals with GEX analysis"],
       [name |-> "OPTION Premium", duration_days |-> MonthDays,
        description |-> "Professional options trading strategies and real-time GEX/DEX analysis"],
       [name |-> "VALUATION Premium", duration_days |-> MonthDays,
        description |-> "Comprehensive company valuation and fundamental research reports"],
       [name |-> "COMBO - Equity + Options", duration_days |-> MonthDays,
        description |-> "Combined equity and options premium package with full access"],
       [name |-> "ANNUAL - All Services", duration_days |-> YearDays,
        description |-> "Complete annual access to all premium services and tools"] >>

\* Python truthiness of a string.
Truthy(s) == s /= ""

Min(a, b) == IF a <= b THEN a ELSE b

\* The rows of a table in ascending id order.
RECURSIVE ById(_)
ById(rows) ==
    IF rows = {} THEN <<>>
    ELSE LET r == CHOOSE x \in rows : \A y \in rows : x.id <= y.id
         IN  <<r>> \o ById(rows \ {r})

----------------------------------------------------------------------------
(***************************************************************************)
(* DatabaseManager                                                         *)
(***************************************************************************)

\* init_database on an empty store: the tables are created empty and the
\* default services are inserted with ids 1..5 and status 'Active'.
SeededServices ==
    { [id |-> i, name |-> default_services[i].name,
       description |-> default_services[i].description,
       duration_days |-> default_services[i].duration_days, status |-> "Active"] :
      i \in 1..Len(default_services) }

\* The rows executemany inserts for default_services when the AUTOINCREMENT
\* counter of the table stands at `last`.
DefaultServiceRows(last) ==
    { [id |-> last + i, name |-> default_services[i].name,
       description |-> default_services[i].description,
       duration_days |-> default_services[i].duration_days, status |-> "Active"] :
      i \in 1..Len(default_services) }

\* Mutant: the default services are inserted by every initialization.
init_database_always(rows, counters) ==
    [services |-> rows \cup DefaultServiceRows(counters.services),
     seq |-> [counters EXCEPT !.services = @ + Len(default_services)]]

\* init_database on a store whose services table holds `rows` (the tables
\* exist or are created empty): the default services are inserted when
\* SELECT COUNT(*) FROM services is 0.  The result is the table and the counters.
init_database(rows, counters) ==
    IF Cardinality(rows) = 0
    THEN [services |-> rows \cup DefaultServiceRows(counters.services),
          seq |-> [counters EXCEPT !.services = @ + Len(default_services)]]
    ELSE [services |-> rows, seq |-> counters]

\* Mutant: every date from today to today + days.
DateWithin(days) == IF days >= 0 THEN today..(today + days) ELSE {}

\* SQLite date('now', '+{} days'.format(days)): the modifier '+N days' is valid
\* for N >= 0; '+-N days' is not a modifier and date() yields NULL, which equals
\* no date.  The result is the set of dates the expression equals.
DateNowPlus(days) == IF days >= 0 THEN {today + days} ELSE {}

\* The join of get_active_subscriptions / get_expiring_subscriptions:
\* subscriptions JOIN clients ON client_id = id JOIN services ON service_id = id.
\* Mutant: LEFT JOIN clients, a subscription without a client row is returned
\* with empty client columns.
JoinedLeft ==
    { [id |-> s.id, client_id |-> s.client_id, service_id |-> s.service_id,
       start_date |-> s.start_date, end_date |-> s.end_date, status |-> s.status,
       client_name |-> "", email |-> "", whatsapp |-> "",
       service_name |-> sv.name, description |-> sv.description] :
      <<s, sv>> \in { t \in subscriptions \X services : t[1].service_id = t[2].id } }

Joined ==
    { [id |-> s.id, client_id |-> s.client_id, service_id |-> s.service_id,
       start_date |-> s.start_date, end_date |-> s.end_date, status |-> s.status,
       client_name |-> c.name, email |-> c.email, whatsapp |-> c.whatsapp,
       service_name |-> sv.name, description |-> sv.description] :
      <<s, c, sv>> \in { t \in subscriptions \X clients \X services :
                           t[1].client_id = t[2].id /\ t[1].service_id = t[3].id } }

get_expiring_subscriptions(days) ==
    ById({ r \in Joined : r.status = "Active" /\ r.end_date \in DateNowPlus(days) })

\* ORDER BY s.end_date (rows of one end date in the order of their ids).
RECURSIVE ByEndDate(_)
ByEndDate(rows) ==
    IF rows = {} THEN <<>>
    ELSE LET r == CHOOSE x \in rows :
                     \A y \in rows : x.end_date < y.end_date
                                     \/ (x.end_date = y.end_date /\ x.id <= y.id)
         IN  <<r>> \o ByEndDate(rows \ {r})

\* Mutant: a subscription that ends today is not active any more.
get_active_after_today ==
    ByEndDate({ r \in Joined : r.status = "Active" /\ r.end_date > today })

\* get_active_subscriptions: ... WHERE s.status = 'Active' AND
\* s.end_date >= date('now') ORDER BY s.end_date
get_active_subscriptions ==
    ByEndDate({ r \in Joined : r.status = "Active" /\ r.end_date >= today })

\* get_services: the services a form offers.
get_services == { sv \in services : sv.status = "Active" }

----------------------------------------------------------------------------
(***************************************************************************)
(* Form handlers of the Streamlit application                              *)
(***************************************************************************)

\* No send_expiry_notifications call is on the stack: a form handler runs in a
\* script run of its own, after the previous one has ended.
NoRun == [pc |-> "idle", result |-> "none", rows |-> <<>>, i |-> 0, base |-> 0]

Idle == run.pc = "idle"

\* Mutant: the column has no UNIQUE constraint.
EmailNeverTaken(email, id) == FALSE

\* The UNIQUE constraint on clients.email, for a row other than `id`.
EmailTaken(email, id) == \E c \in clients : c.email = email /\ c.id /= id

\* The UNIQUE constraint on services.name, for a row other than `id`.
NameTaken(name, id) == \E sv \in services : sv.name = name /\ sv.id /= id

\* show_client_management, "Add Client" submitted.
AddClient(name, email, whatsapp) ==
    /\ Idle
    /\ IF Truthy(name) /\ Truthy(email)
       THEN IF EmailTaken(email, 0)
            THEN \* sqlite3.IntegrityError, caught
                 /\ ui' = "error: email exists"
                 /\ UNCHANGED <<clients, seq>>
            ELSE /\ seq.clients < MaxClients
                 /\ clients' = clients \cup
                       {[id |-> seq.clients + 1, name |-> name, email |-> email,
                         whatsapp |-> whatsapp, status |-> "Active"]}
                 /\ seq' = [seq EXCEPT !.clients = @ + 1]
                 /\ ui' = "success"
       ELSE /\ ui' = "error: required"
            /\ UNCHANGED <<clients, seq>>
    /\ run' = NoRun
    /\ UNCHANGED <<today, services, subscriptions, notifications, config, outbox, runs>>

\* show_client_management, "Update Client" submitted for the selected client c.
\* The UPDATE is not inside a try: a UNIQUE violation is an uncaught
\* sqlite3.IntegrityError and the statement changes nothing.
EditClient(c, name, email, whatsapp, status) ==
    /\ Idle
    /\ c \in clients
    /\ IF EmailTaken(email, c.id)
       THEN /\ ui' = "exception"
            /\ UNCHANGED clients
       ELSE /\ clients' = (clients \ {c}) \cup
                  {[id |-> c.id, name |-> name, email |-> email,
                    whatsapp |-> whatsapp, status |-> status]}
            /\ ui' = "success"
    /\ run' = NoRun
    /\ UNCHANGED <<today, services, subscriptions, notifications, seq, config, outbox, runs>>

\* Mutant: the client's subscriptions are deleted with the client.
DeleteClientCascade(c) ==
    /\ Idle
    /\ c \in clients
    /\ clients' = clients \ {c}
    /\ subscriptions' = {s \in subscriptions : s.client_id /= c.id}
    /\ ui' = "success"
    /\ run' = NoRun
    /\ UNCHANGED <<today, services, notifications, seq, config, outbox, runs>>

\* show_client_management, "Delete Client" submitted with the confirmation
\* ticked: DELETE FROM clients WHERE id=?  (foreign keys are not enforced, the
\* client's subscriptions and notifications stay).
DeleteClient(c) ==
    /\ Idle
    /\ c \in clients
    /\ clients' = clients \ {c}
    /\ ui' = "success"
    /\ run' = NoRun
    /\ UNCHANGED <<today, services, subscriptions, notifications, seq, config, outbox, runs>>

\* A dashboard session, the scheduler or the test mode starts on the store
\* there is: DatabaseManager(...) runs init_database.
NewDatabaseManager ==
    /\ Idle
    /\ services' = init_database(services, seq).services
    /\ seq' = init_database(services, seq).seq
    /\ ui' = "started"
    /\ run' = NoRun
    /\ UNCHANGED <<today, clients, subscriptions, notifications, config, outbox, runs>>

\* show_settings, Data Cleanup, "Remove Inactive Clients" pressed; `confirmed`
\* is what the confirmation checkbox under the button answers:
\* DELETE FROM clients WHERE status='Inactive'
RemoveInactiveClients(confirmed) ==
    /\ Idle
    /\ IF confirmed
       THEN /\ clients' = {c \in clients : c.status /= "Inactive"}
            /\ ui' = "success"
       ELSE UNCHANGED <<clients, ui>>
    /\ run' = NoRun
    /\ UNCHANGED <<today, services, subscriptions, notifications, seq, config, outbox, runs>>

\* show_settings, "Add Service" submitted.
AddService(name, description, duration, status) ==
    /\ Idle
    /\ IF Truthy(name) /\ Truthy(description)
       THEN IF NameTaken(name, 0)
            THEN \* sqlite3.IntegrityError, caught
                 /\ ui' = "error: service exists"
                 /\ UNCHANGED <<services, seq>>
            ELSE /\ seq.services < Len(default_services) + MaxNewServices
                 /\ services' = services \cup
                       {[id |-> seq.services + 1, name |-> name,
                         description |-> description,
                         duration_days |-> duration, status |-> status]}
                 /\ seq' = [seq EXCEPT !.services = @ + 1]
                 /\ ui' = "success"
       ELSE /\ ui' = "error: required"
            /\ UNCHANGED <<services, seq>>
    /\ run' = NoRun
    /\ UNCHANGED <<today, clients, subscriptions, notifications, config, outbox, runs>>

\* show_settings, "Update" submitted in the form of service sv (the forms are
\* shown for the Active services).  Only the services row is written.
EditService(sv, name, description, duration, status) ==
    /\ Idle
    /\ sv \in get_services
    /\ IF NameTaken(name, sv.id)
       THEN /\ ui' = "exception"
            /\ UNCHANGED services
       ELSE /\ services' = (services \ {sv}) \cup
                  {[id |-> sv.id, name |-> name, description |-> description,
                    duration_days |-> duration, status |-> status]}
            /\ ui' = "success"
    /\ run' = NoRun
    /\ UNCHANGED <<today, clients, subscriptions, notifications, seq, config, outbox, runs>>

\* Mutant: the row is removed (DELETE FROM services WHERE id=?).
RemoveService(sv) ==
    /\ Idle
    /\ sv \in get_services
    /\ services' = services \ {sv}
    /\ ui' = "success"
    /\ run' = NoRun
    /\ UNCHANGED <<today, clients, subscriptions, notifications, seq, config, outbox, runs>>

\* Mutant: the subscriptions of the service are cancelled with it.
DeactivateServiceAndSubscriptions(sv) ==
    /\ Idle
    /\ sv \in get_services
    /\ services' = (services \ {sv}) \cup {[sv EXCEPT !.status = "Inactive"]}
    /\ subscriptions' = { IF s.service_id = sv.id THEN [s EXCEPT !.status = "Cancelled"]
                          ELSE s : s \in subscriptions }
    /\ ui' = "success"
    /\ run' = NoRun
    /\ UNCHANGED <<today, clients, notifications, seq, config, outbox, runs>>

\* show_settings, "Delete" submitted with the confirmation ticked:
\* UPDATE services SET status='Inactive' WHERE id=?
DeactivateService(sv) ==
    /\ Idle
    /\ sv \in get_services
    /\ services' = (services \ {sv}) \cup {[sv EXCEPT !.status = "Inactive"]}
    /\ ui' = "success"
    /\ run' = NoRun
    /\ UNCHANGED <<today, clients, subscriptions, notifications, seq, config, outbox, runs>>

\* Mutant: every subscription runs for a month.
EndDateOfAMonth(start_date, sv) == start_date + MonthDays

\* end_date = start_date + timedelta(days=service_data['duration_days'])
EndDate(start_date, sv) == start_date + sv.duration_days

\* show_subscription_management, "Create Subscription" submitted: c and sv are
\* the selected client and (Active) service, `filled` says that the client, the
\* service and the payment method are chosen and the amount is positive.
AddSubscription(c, sv, start_date, filled) ==
    /\ Idle
    /\ c \in clients
    /\ sv \in get_services
    /\ IF filled
       THEN /\ seq.subscriptions < MaxSubs
            /\ subscriptions' = subscriptions \cup
                  {[id |-> seq.subscriptions + 1, client_id |-> c.id,
                    service_id |-> sv.id, start_date |-> start_date,
                    end_date |-> EndDate(start_date, sv), status |-> "Active"]}
            /\ seq' = [seq EXCEPT !.subscriptions = @ + 1]
            /\ ui' = "success"
       ELSE /\ ui' = "error: required"
            /\ UNCHANGED <<subscriptions, seq>>
    /\ run' = NoRun
    /\ UNCHANGED <<today, clients, services, notifications, config, outbox, runs>>

\* show_notifications, "Save Email Settings" / "Save WhatsApp Settings" /
\* "Save Notification Settings": ConfigManager.set of the section's keys.
SaveEmailSettings(enabled) ==
    /\ Idle
    /\ config' = [config EXCEPT !.email.enabled = enabled]
    /\ ui' = "success"
    /\ run' = NoRun
    /\ UNCHANGED <<today, store, outbox, runs>>

SaveWhatsAppSettings(enabled) ==
    /\ Idle
    /\ config' = [config EXCEPT !.whatsapp.enabled = enabled]
    /\ ui' = "success"
    /\ run' = NoRun
    /\ UNCHANGED <<today, store, outbox, runs>>

SaveNotificationSettings(enabled, days_before) ==
    /\ Idle
    /\ config' = [config EXCEPT !.notifications.enabled = enabled,
                                !.notifications.days_before_expiry = days_before]
    /\ ui' = "success"
    /\ run' = NoRun
    /\ UNCHANGED <<today, store, outbox, runs>>

\* Midnight passes.
Tick ==
    /\ today < MaxTicks
    /\ today' = today + 1
    /\ UNCHANGED <<store, config, ui, run, outbox, runs>>

----------------------------------------------------------------------------
(***************************************************************************)
(* Text.  A string is rendered as the sequence of its characters; the      *)
(* i-th character of the text named t is the pair <<t, i>>.                *)
(***************************************************************************)

\* len(s) of the strings of the model.
StrLen(s) ==
    CASE s = "" -> 0
      [] s = "Asha" -> 4
      [] s = "a@x" -> 3
      [] s = "b@x" -> 3
      [] s = "+91" -> 3
      [] s = "NYZTrade" -> 8
      [] s = "+91-9999999999" -> 14
      [] s = "support@nyztrade.com" -> 20
      [] s = "Kerala, India" -> 13
      [] s = "EQUITY Premium" -> 14
      [] s = "OPTION Premium" -> 14
      [] s = "VALUATION Premium" -> 17
      [] s = "COMBO - Equity + Options" -> 24
      [] s = "ANNUAL - All Services" -> 21
      [] s = "Intraday" -> 8
      [] s = "text" -> 4
      [] s = "Advanced equity analysis and trading signals with GEX analysis" -> 62
      [] s = "Professional options trading strategies and real-time GEX/DEX analysis" -> 70
      [] s = "Comprehensive company valuation and fundamental research reports" -> 64
      [] s = "Combined equity and options premium package with full access" -> 60
      [] s = "Complete annual access to all premium services and tools" -> 56

\* The characters of the string s.
Str(s) == [i \in 1..StrLen(s) |-> <<s, i>>]

\* The n characters of the literal part `tag` of a template.
Lit(tag, n) == [i \in 1..n |-> <<tag, i>>]

\* A date column as pandas returns it: the 10 characters of 'YYYY-MM-DD'.
DateStr(d) == Lit(ToString(d), 10)

\* s.replace('+', '') for a phone number, whose only '+' is its first character.
WithoutPlus(s) == SubSeq(Str(s), 2, StrLen(s))

----------------------------------------------------------------------------
(***************************************************************************)
(* NotificationManager                                                     *)
(***************************************************************************)

\* create_whatsapp_message: the f-string, literal parts and substitutions in order.
create_whatsapp_message(row) ==
    Lit("wa1", 6) \o Str(config.business.name) \o
    Lit("wa2", 31) \o Str(row.client_name) \o
    Lit("wa3", 14) \o Str(row.service_name) \o
    Lit("wa4", 27) \o DateStr(row.end_date) \o
    Lit("wa5", 221) \o Str(config.business.contact_phone) \o
    Lit("wa6", 8) \o Str(config.business.contact_email) \o
    Lit("wa7", 49) \o Str(config.business.name) \o
    Lit("wa8", 39)

\* create_email_message: the body (the HTML f-string).
create_email_message(row) ==
    Lit("em1", 426) \o Str(config.business.name) \o
    Lit("em2", 261) \o Str(row.client_name) \o
    Lit("em3", 467) \o Str(row.service_name) \o
    Lit("em4", 58) \o DateStr(row.end_date) \o
    Lit("em5", 58) \o Str(row.description) \o
    Lit("em6", 271) \o Str(config.business.name) \o
    Lit("em7", 1185) \o WithoutPlus(config.business.contact_phone) \o
    Lit("em8", 47) \o Str(config.business.contact_phone) \o
    Lit("em9", 95) \o Str(config.business.contact_email) \o
    Lit("em10", 47) \o Str(config.business.contact_email) \o
    Lit("em11", 293) \o Str(config.business.name) \o
    Lit("em12", 183) \o Str(config.business.name) \o
    Lit("em13", 177) \o Str(config.business.address) \o
    Lit("em14", 383)

\* Python's message[:500] on a string given as the sequence of its characters.
Truncate(message) == SubSeq(message, 1, Min(MessageLimit, Len(message)))

\* log_notification(client_id, service_name, notification_type, status, message):
\* the row it inserts.  datetime.now().date() is the current day.
log_notification(client_id, service_name, notification_type, status, message) ==
    [client_id |-> client_id, service_name |-> service_name,
     notification_type |-> notification_type,
     scheduled_date |-> today, sent_date |-> today,
     status |-> status, message |-> Truncate(message)]

\* send_email_notification: its return value when the SMTP session ends as
\* `smtp` ("ok": sendmail and quit returned; "error": any step raised).
send_email_notification(smtp) ==
    IF ~config.email.enabled THEN FALSE ELSE smtp = "ok"

\* Mutant: any answer of the API counts as success.
send_whatsapp_any_answer(http) ==
    IF ~config.whatsapp.enabled THEN FALSE ELSE http /= "error"

\* send_whatsapp_notification: its return value when requests.post answers with
\* status code `http`, or raises (timeout, connection error: "error").
send_whatsapp_notification(http) ==
    IF ~config.whatsapp.enabled THEN FALSE ELSE http = "200"

\* Mutant: a reminder already logged today for the client is not sent again.
EmailDueOncePerDay(row) ==
    /\ Truthy(row.email) /\ config.email.enabled
    /\ ~\E k \in 1..Len(notifications) :
          /\ notifications[k].client_id = row.client_id
          /\ notifications[k].notification_type = "email"
          /\ notifications[k].sent_date = today

\* Mutant: the WhatsApp number is not looked at.
WhatsAppDueAnyNumber(row) == config.whatsapp.enabled

\* The conditions under which send_expiry_notifications handles a channel of a row.
EmailDue(row) == Truthy(row.email) /\ config.email.enabled

WhatsAppDue(row) == Truthy(row.whatsapp) /\ config.whatsapp.enabled

\* Mutant: the switch is not looked at.
NotificationsNeverOff == FALSE

\* send_expiry_notifications returns at once when notifications are disabled.
NotificationsOff == ~config.notifications.enabled

\* Mutant: a failed email ends the loop.
AfterEmailStopOnFailure(success) ==
    IF success THEN [run EXCEPT !.pc = "whatsapp"]
    ELSE [run EXCEPT !.pc = "idle", !.result = "returned"]

\* Where send_expiry_notifications goes after the email part of a row (success
\* is what send_email_notification returned, TRUE when the part was skipped):
\* on to the WhatsApp part of the same row, in either case.
AfterEmail(success) == [run EXCEPT !.pc = "whatsapp"]

\* Mutant: the loop does not advance to the next row.
AfterWhatsAppSameRow(success) == [run EXCEPT !.pc = "email"]

\* Where it goes after the WhatsApp part of a row (success as above): to the
\* next row, or out of the loop, in either case.
AfterWhatsApp(success) ==
    IF run.i = Len(run.rows)
    THEN [run EXCEPT !.pc = "idle", !.result = "returned"]
    ELSE [run EXCEPT !.pc = "email", !.i = @ + 1]

\* log_notification's default for its message parameter, the empty string, which
\* is what send_expiry_notifications logs: it passes no message.
DefaultMessage == <<>>

\* send_expiry_notifications is called (by a "Send ... Reminders" button, shown
\* when get_expiring_subscriptions(1) is not empty, or as the scheduler's job and
\* in test mode) and runs up to the first row of its loop.  `db` says whether the
\* store answers the query ("ok") or raises ("error").
StartSend(caller, db) ==
    /\ Idle
    /\ runs < MaxRuns
    /\ caller = "button" => get_expiring_subscriptions(1) /= <<>>
    /\ runs' = runs + 1
    /\ LET begun == [NoRun EXCEPT !.base = Len(notifications)]
           rows  == get_expiring_subscriptions(config.notifications.days_before_expiry)
       IN  IF NotificationsOff
           THEN run' = [begun EXCEPT !.result = "returned"]
           ELSE IF db = "error"
           THEN run' = [begun EXCEPT !.result = "raised"]
           ELSE IF rows = <<>>
           THEN run' = [begun EXCEPT !.result = "returned", !.rows = rows]
           ELSE run' = [begun EXCEPT !.pc = "email", !.rows = rows, !.i = 1]
    /\ outbox' = <<>>
    /\ UNCHANGED <<today, store, config, ui>>

\* The "Send Email" part of the loop body for the current row.
SendEmail(smtp, db) ==
    /\ run.pc = "email"
    /\ LET row == run.rows[run.i]
       IN  IF EmailDue(row)
           THEN /\ outbox' = Append(outbox,
                       [channel |-> "email", to |-> row.email, result |-> smtp])
                /\ IF db = "error"
                   THEN /\ run' = [run EXCEPT !.pc = "idle", !.result = "raised"]
                        /\ UNCHANGED notifications
                   ELSE /\ notifications' = Append(notifications,
                               log_notification(row.client_id, row.service_name, "email",
                                   IF send_email_notification(smtp) THEN "sent" ELSE "failed",
                                   DefaultMessage))
                        /\ run' = AfterEmail(send_email_notification(smtp))
           ELSE /\ run' = AfterEmail(TRUE)
                /\ UNCHANGED <<notifications, outbox>>
    /\ UNCHANGED <<today, clients, services, subscriptions, seq, config, ui, runs>>

\* The "Send Email" part of the loop body when the SMTP session (smtplib.SMTP,
\* starttls, login, sendmail: blocking calls on a socket without a timeout)
\* never returns: the call is made and the run stays in it.
SendEmailBlocks ==
    /\ run.pc = "email"
    /\ EmailDue(run.rows[run.i])
    /\ outbox' = Append(outbox, [channel |-> "email", to |-> run.rows[run.i].email,
                                 result |-> "hang"])
    /\ run' = [run EXCEPT !.pc = "blocked"]
    /\ UNCHANGED <<today, store, config, ui, runs>>

\* The "Send WhatsApp" part of the loop body for the current row, and the step to
\* the next row or out of the loop.
SendWhatsApp(http, db) ==
    /\ run.pc = "whatsapp"
    /\ LET row == run.rows[run.i]
       IN  IF WhatsAppDue(row)
           THEN /\ outbox' = Append(outbox,
                       [channel |-> "whatsapp", to |-> row.whatsapp, result |-> http])
                /\ IF db = "error"
                   THEN /\ run' = [run EXCEPT !.pc = "idle", !.result = "raised"]
                        /\ UNCHANGED notifications
                   ELSE /\ notifications' = Append(notifications,
                               log_notification(row.client_id, row.service_name, "whatsapp",
                                   IF send_whatsapp_notification(http) THEN "sent" ELSE "failed",
                                   DefaultMessage))
                        /\ run' = AfterWhatsApp(send_whatsapp_notification(http))
           ELSE /\ run' = AfterWhatsApp(TRUE)
                /\ UNCHANGED <<notifications, outbox>>
    /\ UNCHANGED <<today, clients, services, subscriptions, seq, config, ui, runs>>

\* The transport calls of the custom-notification form for the target clients
\* (in the order of the loop): per client the email call when the type includes
\* email and the client has an address, then the WhatsApp call likewise.  A
\* call on a disabled channel returns before anything is sent and is left out.
RECURSIVE CustomCalls(_, _, _, _)
CustomCalls(targets, notification_type, smtp, http) ==
    IF targets = <<>> THEN <<>>
    ELSE LET client == Head(targets)
             e == IF /\ notification_type \in {"Email Only", "Both Email & WhatsApp"}
                     /\ Truthy(client.email) /\ config.email.enabled
                  THEN << [channel |-> "email", to |-> client.email, result |-> smtp] >>
                  ELSE <<>>
             w == IF /\ notification_type \in {"WhatsApp Only", "Both Email & WhatsApp"}
                     /\ Truthy(client.whatsapp) /\ config.whatsapp.enabled
                  THEN << [channel |-> "whatsapp", to |-> client.whatsapp, result |-> http] >>
                  ELSE <<>>
         IN  e \o w \o CustomCalls(Tail(targets), notification_type, smtp, http)

\* show_notifications, "Send Notifications" of the custom-notification form
\* submitted with subject, message and recipients given: the transports are
\* called for every target client; nothing is written to the store.
SendCustomNotification(targets, notification_type, smtp, http) ==
    /\ Idle
    /\ targets /= {} /\ targets \subseteq clients
    /\ outbox' = CustomCalls(ById(targets), notification_type, smtp, http)
    /\ run' = [NoRun EXCEPT !.base = Len(notifications)]
    /\ ui' = "success"
    /\ UNCHANGED <<today, store, config, runs>>

----------------------------------------------------------------------------
(***************************************************************************)
(* ConfigManager.  The configuration is a tree of Python dicts.  `heap` is *)
(* the sequence of the dict objects of the interpreter; a dict is the      *)
(* function from its keys to its cells, and a cell is a scalar (int, str,  *)
(* bool) or a reference to a dict, its index in heap.  A JSON document is  *)
(* the set of its entries, one per node below the root, each named by the  *)
(* key path of the node.  A dotted path is the sequence path.split('.').   *)
(***************************************************************************)
Scalar(kind, s) == [kind |-> kind, s |-> s, a |-> 0]
Ref(a) == [kind |-> "dict", s |-> "", a |-> a]
None == Scalar("none", "")
Entry(path, kind, s) == [path |-> path, kind |-> kind, s |-> s]

\* DEFAULT_CONFIG, as the document its dict literal denotes.
DefaultTree ==
    { Entry(<<"email">>, "dict", ""),
      Entry(<<"email", "smtp_server">>, "str", "smtp.gmail.com"),
      Entry(<<"email", "smtp_port">>, "int", "587"),
      Entry(<<"email", "email_address">>, "str", ""),
      Entry(<<"email", "email_password">>, "str", ""),
      Entry(<<"email", "enabled">>, "bool", "false"),
      Entry(<<"whatsapp">>, "dict", ""),
      Entry(<<"whatsapp", "api_url">>, "str", ""),
      Entry(<<"whatsapp", "api_key">>, "str", ""),
      Entry(<<"whatsapp", "enabled">>, "bool", "false"),
      Entry(<<"notifications">>, "dict", ""),
      Entry(<<"notifications", "days_before_expiry">>, "int", "1"),
      Entry(<<"notifications", "send_time">>, "str", "09:00"),
      Entry(<<"notifications", "enabled">>, "bool", "true"),
      Entry(<<"business">>, "dict", ""),
      Entry(<<"business", "name">>, "str", "NYZTrade"),
      Entry(<<"business", "contact_phone">>, "str", "+91-9999999999"),
      Entry(<<"business", "contact_email">>, "str", "support@nyztrade.com"),
      Entry(<<"business", "website">>, "str", "https://nyztrade.com"),
      Entry(<<"business", "address">>, "str", "Kerala, India"),
      Entry(<<"database">>, "dict", ""),
      Entry(<<"database", "path">>, "str", "premium_clients.db") }

\* The state of the config file: absent, zero bytes, text that is not JSON, or
\* a JSON object.
NoFile == [state |-> "missing", doc |-> {}]
EmptyFile == [state |-> "empty", doc |-> {}]
MalformedFile == [state |-> "malformed", doc |-> {}]
JsonFile(doc) == [state |-> "json", doc |-> doc]

\* d[k] = c on a dict d.
Put(d, k, c) == [x \in (DOMAIN d) \cup {k} |-> IF x = k THEN c ELSE d[x]]

\* heap[a][k] = c.
SetItem(h, a, k, c) == [h EXCEPT ![a] = Put(@, k, c)]

\* The entries of doc directly below the node at path.
Children(doc, path) ==
    { e \in doc : /\ Len(e.path) = Len(path) + 1
                  /\ SubSeq(e.path, 1, Len(path)) = path }

\* The key of an entry: the last element of its path.
KeyOf(e) == e.path[Len(e.path)]

\* json.load (and the evaluation of a dict literal): the node of doc at path
\* becomes a new dict object, and so does every object below it.  The new dict
\* is made with its scalar items, then the objects below it are loaded in turn.
RECURSIVE json_load(_, _, _)
RECURSIVE LoadItems(_, _, _, _)
json_load(h, doc, path) ==
    LET below   == Children(doc, path)
        scalars == {e \in below : e.kind /= "dict"}
        items   == [k \in {KeyOf(e) : e \in scalars} |->
                       LET e == CHOOSE x \in scalars : KeyOf(x) = k
                       IN  Scalar(e.kind, e.s)]
    IN  LoadItems(Append(h, items), doc, Len(h) + 1, below \ scalars)

LoadItems(h, doc, a, todo) ==
    IF todo = {} THEN [heap |-> h, addr |-> a]
    ELSE LET e   == CHOOSE x \in todo : TRUE
             sub == json_load(h, doc, e.path)
         IN  LoadItems(SetItem(sub.heap, a, KeyOf(e), Ref(sub.addr)), doc, a, todo \ {e})

\* json.dump: the document of the dict at address a, its entries named below path.
RECURSIVE json_dump(_, _, _)
json_dump(h, a, path) ==
    UNION { LET c == h[a][k]
                p == Append(path, k)
            IN  IF c.kind = "dict"
                THEN {Entry(p, "dict", "")} \cup json_dump(h, c.a, p)
                ELSE {Entry(p, c.kind, c.s)}
            : k \in DOMAIN h[a] }

\* The characters of the strings of the configuration model.
Chars(s) ==
    CASE s = "" -> <<>>
      [] s = "smtp.gmail.com" -> <<"s", "m", "t", "p", ".", "g", "m", "a", "i", "l", ".", "c", "o", "m">>
      [] s = "09:00" -> <<"0", "9", ":", "0", "0">>
      [] s = "NYZTrade" -> <<"N", "Y", "Z", "T", "r", "a", "d", "e">>
      [] s = "+91-9999999999" -> <<"+", "9", "1", "-", "9", "9", "9", "9", "9", "9", "9", "9", "9", "9">>
      [] s = "support@nyztrade.com" -> <<"s", "u", "p", "p", "o", "r", "t", "@", "n", "y", "z", "t", "r", "a", "d", "e", ".", "c", "o", "m">>
      [] s = "https://nyztrade.com" -> <<"h", "t", "t", "p", "s", ":", "/", "/", "n", "y", "z", "t", "r", "a", "d", "e", ".", "c", "o", "m">>
      [] s = "Kerala, India" -> <<"K", "e", "r", "a", "l", "a", ",", " ", "I", "n", "d", "i", "a">>
      [] s = "premium_clients.db" -> <<"p", "r", "e", "m", "i", "u", "m", "_", "c", "l", "i", "e", "n", "t", "s", ".", "d", "b">>
      [] s = "dark" -> <<"d", "a", "r", "k">>
      [] s = "off" -> <<"o", "f", "f">>
      [] s = "email" -> <<"e", "m", "a", "i", "l">>
      [] s = "smtp_server" -> <<"s", "m", "t", "p", "_", "s", "e", "r", "v", "e", "r">>
      [] s = "smtp_port" -> <<"s", "m", "t", "p", "_", "p", "o", "r", "t">>
      [] s = "enabled" -> <<"e", "n", "a", "b", "l", "e", "d">>
      [] s = "whatsapp" -> <<"w", "h", "a", "t", "s", "a", "p", "p">>
      [] s = "theme" -> <<"t", "h", "e", "m", "e">>
      [] s = "ui" -> <<"u", "i">>
      [] s = "x" -> <<"x">>
      [] s = "smtp" -> <<"s", "m", "t", "p">>
      [] s = "nothing" -> <<"n", "o", "t", "h", "i", "n", "g">>
      [] s = "email_address" -> <<"e", "m", "a", "i", "l", "_", "a", "d", "d", "r", "e", "s", "s">>
      [] s = "email_password" -> <<"e", "m", "a", "i", "l", "_", "p", "a", "s", "s", "w", "o", "r", "d">>
      [] s = "api_url" -> <<"a", "p", "i", "_", "u", "r", "l">>
      [] s = "api_key" -> <<"a", "p", "i", "_", "k", "e", "y">>
      [] s = "notifications" -> <<"n", "o", "t", "i", "f", "i", "c", "a", "t", "i", "o", "n", "s">>
      [] s = "days_before_expiry" -> <<"d", "a", "y", "s", "_", "b", "e", "f", "o", "r", "e", "_", "e", "x", "p", "i", "r", "y">>
      [] s = "send_time" -> <<"s", "e", "n", "d", "_", "t", "i", "m", "e">>
      [] s = "business" -> <<"b", "u", "s", "i", "n", "e", "s", "s">>
      [] s = "name" -> <<"n", "a", "m", "e">>
      [] s = "contact_phone" -> <<"c", "o", "n", "t", "a", "c", "t", "_", "p", "h", "o", "n", "e">>
      [] s = "contact_email" -> <<"c", "o", "n", "t", "a", "c", "t", "_", "e", "m", "a", "i", "l">>
      [] s = "website" -> <<"w", "e", "b", "s", "i", "t", "e">>
      [] s = "address" -> <<"a", "d", "d", "r", "e", "s", "s">>
      [] s = "database" -> <<"d", "a", "t", "a", "b", "a", "s", "e">>
      [] s = "path" -> <<"p", "a", "t", "h">>

\* `key in value` for a str value: key occurs in it as a substring.
IsSubstring(key, s) ==
    \E i \in 0..(Len(Chars(s)) - Len(Chars(key))) :
        SubSeq(Chars(s), i + 1, i + Len(Chars(key))) = Chars(key)

\* What a call gave back: a value, or an exception (TypeError).
Returned(cell) == [raised |-> FALSE, value |-> cell]
RaisedTypeError == [raised |-> TRUE, value |-> None]

\* The loop of ConfigManager.get from the point where `value` is the given cell
\* and `keys` are still to be followed.  `key in value` is a key lookup on a
\* dict, a substring test on a str (and value[key] then raises), and raises on
\* an int or a bool.
RECURSIVE get_from(_, _, _, _)
get_from(h, value, keys, default) ==
    IF keys = <<>> THEN Returned(value)
    ELSE LET key == Head(keys)
         IN  CASE value.kind = "dict" ->
                    IF key \in DOMAIN h[value.a]
                    THEN get_from(h, h[value.a][key], Tail(keys), default)
                    ELSE Returned(default)
               [] value.kind = "str" ->
                    IF IsSubstring(key, value.s) THEN RaisedTypeError
                    ELSE Returned(default)
               [] OTHER -> RaisedTypeError

\* ConfigManager.get(path, default) of the manager whose self.config is the
\* dict at address root.
get(h, root, path, default) == get_from(h, Ref(root), path, default)

\* The loop of ConfigManager.set from the point where its variable `config` is the
\* given cell: a missing key gets a new empty dict, the walk goes into config[key],
\* and the last key is assigned.  On a cell that is not a dict the membership
\* test or the item assignment raises TypeError.
RECURSIVE set_in(_, _, _, _)
set_in(h, cell, keys, value) ==
    IF cell.kind /= "dict" THEN [raised |-> TRUE, heap |-> h]
    ELSE IF Len(keys) = 1
    THEN [raised |-> FALSE, heap |-> SetItem(h, cell.a, keys[1], value)]
    ELSE LET key == Head(keys)
             h1  == IF key \in DOMAIN h[cell.a] THEN h
                    ELSE SetItem(Append(h, <<>>), cell.a, key, Ref(Len(h) + 1))
         IN  set_in(h1, h1[cell.a][key], Tail(keys), value)

\* ConfigManager.set(path, value).
set(h, root, path, value) == set_in(h, Ref(root), path, value)

\* Mutant: the defaults win over the values of the file.
MergeDefaultsWin(h, default, user) ==
    [h EXCEPT ![user] = [k \in DOMAIN h[user] \cup DOMAIN h[default] |->
                            IF k \in DOMAIN h[default] THEN h[default][k] ELSE h[user][k]]]

\* ConfigManager._merge_config(default, user), which returns user: a key of
\* default that user lacks is given default's cell (the same object when it is
\* a dict); where both hold a dict the two are merged in turn (MergeKeys, the
\* keys in todo still to be visited); any other key of user is left as it is.
RECURSIVE _merge_config(_, _, _)
RECURSIVE MergeKeys(_, _, _, _)
_merge_config(h, default, user) ==
    LET filled == [k \in DOMAIN h[user] \cup DOMAIN h[default] |->
                      IF k \in DOMAIN h[user] THEN h[user][k] ELSE h[default][k]]
        both   == {k \in DOMAIN h[user] \cap DOMAIN h[default] :
                      h[default][k].kind = "dict" /\ h[user][k].kind = "dict"}
    IN  MergeKeys([h EXCEPT ![user] = filled], default, user, both)

MergeKeys(h, default, user, todo) ==
    IF todo = {} THEN h
    ELSE LET key == CHOOSE k \in todo : TRUE
         IN  MergeKeys(_merge_config(h, h[default][key].a, h[user][key].a),
                       default, user, todo \ {key})

\* ConfigManager.load_config with the file in state f, DEFAULT_CONFIG being the
\* dict at address defaults: a shallow copy of DEFAULT_CONFIG when the file is
\* missing, the merged document when the file holds a JSON object, and
\* json.JSONDecodeError, which is not caught, otherwise.
load_config(h, f, defaults) ==
    CASE f.state = "missing" ->
            [raised |-> FALSE, heap |-> Append(h, h[defaults]), root |-> Len(h) + 1]
      [] f.state = "json" ->
            LET user == json_load(h, f.doc, <<>>)
            IN  [raised |-> FALSE,
                 heap |-> _merge_config(user.heap, defaults, user.addr),
                 root |-> user.addr]
      [] OTHER -> [raised |-> TRUE, heap |-> h, root |-> 0]

\* Mutant: the tree is written next to what the file holds.
save_config_into_file(h, root) == JsonFile(file.doc \cup json_dump(h, root, <<>>))

\* ConfigManager.save_config: the file is opened for writing and the tree dumped.
save_config(h, root) == JsonFile(json_dump(h, root, <<>>))

\* The ConfigManager objects of the model: one per running instance of the
\* program (a dashboard session, or the process of a command-line mode).
Instances == {1, 2}

NoManager == [root |-> 0, defaults |-> 0, from |-> NoFile, saved |-> NoFile]
NoOp == [op |-> "none", by |-> 0, raised |-> FALSE, path |-> <<>>, value |-> None]

\* Mutant: the ConfigManager is one object for all instances of the program, a
\* later ConfigManager() is the tree there is.
NewConfigManagerShared(i) ==
    /\ used.loads < MaxLoads
    /\ IF \E j \in Instances : mgr[j].root /= 0
       THEN /\ mgr' = [mgr EXCEPT ![i] = mgr[CHOOSE j \in Instances : mgr[j].root /= 0]]
            /\ UNCHANGED heap
       ELSE LET module == json_load(heap, DefaultTree, <<>>)
                loaded == load_config(module.heap, file, module.addr)
            IN  /\ heap' = loaded.heap
                /\ mgr' = [mgr EXCEPT ![i] =
                             [root |-> loaded.root, defaults |-> module.addr,
                              from |-> file, saved |-> NoFile]]
    /\ call' = [NoOp EXCEPT !.op = "load", !.by = i]
    /\ used' = [used EXCEPT !.loads = @ + 1]
    /\ UNCHANGED file

\* ConfigManager(): the program's module is executed (DEFAULT_CONFIG is built
\* anew by its dict literal) and __init__ calls load_config.  `from` remembers
\* the file that was read.
NewConfigManager(i) ==
    /\ used.loads < MaxLoads
    /\ LET module == json_load(heap, DefaultTree, <<>>)
           loaded == load_config(module.heap, file, module.addr)
       IN  /\ heap' = loaded.heap
           /\ mgr' = [mgr EXCEPT ![i] =
                        IF loaded.raised THEN NoManager
                        ELSE [root |-> loaded.root, defaults |-> module.addr,
                              from |-> file, saved |-> NoFile]]
           /\ call' = [NoOp EXCEPT !.op = "load", !.by = i, !.raised = loaded.raised]
    /\ used' = [used EXCEPT !.loads = @ + 1]
    /\ UNCHANGED file

\* config_manager.set(path, value)
Set(i, path, value) ==
    /\ mgr[i].root /= 0
    /\ used.sets < MaxSets
    /\ LET done == set(heap, mgr[i].root, path, value)
       IN  /\ heap' = done.heap
           /\ call' = [op |-> "set", by |-> i, raised |-> done.raised,
                       path |-> path, value |-> value]
    /\ used' = [used EXCEPT !.sets = @ + 1]
    /\ UNCHANGED <<mgr, file>>

\* config_manager.save_config()
Save(i) ==
    /\ mgr[i].root /= 0
    /\ file' = save_config(heap, mgr[i].root)
    /\ mgr' = [mgr EXCEPT ![i].saved = file']
    /\ call' = [NoOp EXCEPT !.op = "save", !.by = i]
    /\ UNCHANGED <<heap, used>>

\* A settings form is submitted (or the setup wizard answered): the setting is
\* set and save_config() called.
SaveSetting(i, path, value) ==
    /\ mgr[i].root /= 0
    /\ used.sets < MaxSets
    /\ LET done == set(heap, mgr[i].root, path, value)
       IN  /\ ~done.raised
           /\ heap' = done.heap
           /\ file' = save_config(done.heap, mgr[i].root)
    /\ mgr' = [mgr EXCEPT ![i].saved = file']
    /\ call' = [op |-> "save", by |-> i, raised |-> FALSE, path |-> path, value |-> value]
    /\ used' = [used EXCEPT !.sets = @ + 1]

\* Before the program runs, the config file is whatever was left there.
FoundFile(f) ==
    /\ used.loads = 0
    /\ file = NoFile
    /\ file' = f
    /\ UNCHANGED <<heap, mgr, call, used>>

----------------------------------------------------------------------------
(***************************************************************************)
(* run_scheduler.  The time of day is the number of the polling interval   *)
(* (time.sleep(60)) the clock is in, counted from midnight; a point in     *)
(* time is a day and an interval.  The job's send time is the start of     *)
(* interval SendAt.                                                        *)
(***************************************************************************)
Now == [day |-> today, slot |-> clock]

Before(p, q) == p.day < q.day \/ (p.day = q.day /\ p.slot < q.slot)

\* Mutant: the job is always scheduled for today.
NextRunToday(now, at) == [day |-> now.day, slot |-> at]

\* Mutant: a job created in the interval of its send time is still due today.
NextRunFromThisInterval(now, at) ==
    IF at >= now.slot THEN [day |-> now.day, slot |-> at]
    ELSE [day |-> now.day + 1, slot |-> at]

\* schedule's Job._schedule_next_run for every().day.at(at): today at `at` when
\* that time of day is still ahead of now, else tomorrow at `at`.
NextRunFrom(now, at) ==
    IF at > now.slot THEN [day |-> now.day, slot |-> at]
    ELSE [day |-> now.day + 1, slot |-> at]

NoScheduler ==
    [state |-> "down", next_run |-> [day |-> 0, slot |-> 0],
     since |-> [day |-> 0, slot |-> 0], polled |-> FALSE, starts |-> 0]

\* The scheduler process is started: the job is scheduled and the loop entered.
StartScheduler ==
    /\ Idle
    /\ sched.state \in {"down", "dead", "stopped"}
    /\ sched.starts < MaxStarts
    /\ sched' = [state |-> "up", next_run |-> NextRunFrom(Now, SendAt), since |-> Now,
                 polled |-> FALSE, starts |-> sched.starts + 1]
    /\ UNCHANGED <<clock, fires>>

\* The ConfigManager of the dashboard session and that of the scheduler process.
Dashboard == 1
SchedulerProcess == 2

\* int(s) and the polling interval a send time "HH:MM" starts.
IntOf(s) == CASE s = "1" -> 1 [] s = "2" -> 2
SlotOf(s) == CASE s = "09:00" -> SendAt [] s = "10:00" -> SendAt + 1

\* What config.get answers for the keys the modelled code reads, on the tree at
\* root.
ConfigView(h, root) ==
    LET at(path) == get(h, root, path, None).value.s
    IN  [email         |-> [enabled |-> at(<<"email", "enabled">>) = "true"],
         whatsapp      |-> [enabled |-> at(<<"whatsapp", "enabled">>) = "true"],
         notifications |-> [days_before_expiry |->
                                IntOf(at(<<"notifications", "days_before_expiry">>)),
                            enabled |-> at(<<"notifications", "enabled">>) = "true"],
         business      |-> [name |-> at(<<"business", "name">>),
                            contact_phone |-> at(<<"business", "contact_phone">>),
                            contact_email |-> at(<<"business", "contact_email">>),
                            address |-> at(<<"business", "address">>)]]

\* run_scheduler up to its loop: the process constructs its ConfigManager, its
\* NotificationManager works on that object, and the job is registered at the
\* send time read from it.
RunScheduler ==
    /\ Idle
    /\ sched.state \in {"down", "dead", "stopped"}
    /\ sched.starts < MaxStarts
    /\ NewConfigManager(SchedulerProcess)
    /\ config' = ConfigView(heap', mgr'[SchedulerProcess].root)
    /\ sched' = [state |-> "up",
                 next_run |-> NextRunFrom(Now,
                     SlotOf(get(heap', mgr'[SchedulerProcess].root,
                                <<"notifications", "send_time">>, None).value.s)),
                 since |-> Now, polled |-> FALSE, starts |-> sched.starts + 1]
    /\ UNCHANGED <<today, store, ui, run, outbox, runs, clock, fires>>

\* schedule.run_pending() of one turn of the loop: the job is run when now has
\* reached its next_run; `db` says whether the store answers.
RunPending(db) ==
    /\ sched.state = "up" /\ ~sched.polled
    /\ IF ~Before(Now, sched.next_run)
       THEN /\ StartSend("job", db)
            /\ sched' = [sched EXCEPT !.state = "job"]
            /\ fires' = Append(fires, [day |-> today, start |-> sched.starts,
                                       since |-> sched.since])
       ELSE /\ sched' = [sched EXCEPT !.polled = TRUE]
            /\ UNCHANGED <<today, store, config, ui, run, outbox, runs, fires>>
    /\ UNCHANGED clock

\* The job function is over.  When it returned, the job is scheduled again (for
\* the time of day it was registered with) and the loop goes to sleep; an exception it raised leaves run_pending and the
\* while loop, whose only handler is for KeyboardInterrupt, and ends the process.
JobEnds ==
    /\ sched.state = "job" /\ run.pc = "idle"
    /\ sched' = IF run.result = "raised" THEN [sched EXCEPT !.state = "dead"]
                ELSE [sched EXCEPT !.state = "up", !.polled = TRUE,
                                   !.next_run = NextRunFrom(Now, sched.next_run.slot)]
    /\ UNCHANGED <<clock, fires>>

\* The operator interrupts the loop (KeyboardInterrupt).
Interrupt ==
    /\ sched.state = "up"
    /\ sched' = [sched EXCEPT !.state = "stopped"]
    /\ UNCHANGED <<clock, fires>>

\* One polling interval passes (time.sleep(60) of a running loop).
Sleep ==
    /\ Idle
    /\ sched.state /= "job"
    /\ sched.state = "up" => sched.polled
    /\ IF clock < DayLen - 1
       THEN /\ clock' = clock + 1
            /\ UNCHANGED <<today, store, config, ui, run, outbox, runs>>
       ELSE /\ clock' = 0
            /\ Tick
    /\ sched' = [sched EXCEPT !.polled = FALSE]
    /\ UNCHANGED fires

----------------------------------------------------------------------------
(***************************************************************************)
(* Specifications.  Each one starts from the state after construction      *)
(* (ConfigManager with no config file, DatabaseManager on an empty store)  *)
(* and lets the operator submit forms with inputs from the sets below.     *)
(***************************************************************************)
Init ==
    /\ today = 0
    /\ clients = {}
    /\ services = SeededServices
    /\ subscriptions = {}
    /\ notifications = <<>>
    /\ seq = [clients |-> 0, services |-> Len(default_services), subscriptions |-> 0]
    /\ config = DEFAULT_CONFIG
    /\ ui = "none"
    /\ run = NoRun
    /\ outbox = <<>>
    /\ runs = 0
    /\ heap = <<>>
    /\ mgr = [i \in Instances |-> NoManager]
    /\ file = NoFile
    /\ call = NoOp
    /\ used = [loads |-> 0, sets |-> 0]
    /\ clock = 0
    /\ sched = NoScheduler
    /\ fires = <<>>


Names == {"", "Asha"}
Emails == {"", "a@x", "b@x"}
WhatsApps == {"", "+91"}
Statuses == {"Active", "Inactive"}
Durations == {0 - 1, 7}
SmtpResults == {"ok", "error"}
HttpResults == {"200", "500", "error"}
Callers == {"button", "job"}
DbResults == {"ok", "error"}

\* The services the operator works with: the first monthly default service, the
\* annual one, and any service added later.
Offered == { sv \in get_services : sv.id \notin 2..4 }

\* The rows of the services seeded by init_database.
DefaultRows == { sv \in services : sv.id <= Len(default_services) }

\* Start dates that put the end of a monthly subscription on the day before the
\* first day of the model, on its second day and on its third day.
StartDates == {0 - 1 - MonthDays, 1 - MonthDays, 2 - MonthDays}

\* Clients are added with valid inputs.
AddValidClient ==
    \E email \in Emails \ {""}, whatsapp \in WhatsApps : AddClient("Asha", email, whatsapp)

\* The configuration files and the scheduler are not touched.
AppOnly == UNCHANGED <<cfgvars, schedvars>>

\* ---- SpecClients: the client forms, with every input.
NextClients ==
    \/ \E name \in Names, email \in Emails, whatsapp \in WhatsApps :
          AddClient(name, email, whatsapp) /\ AppOnly
    \/ \E c \in clients, name \in Names, email \in Emails, whatsapp \in WhatsApps,
          status \in Statuses : EditClient(c, name, email, whatsapp, status) /\ AppOnly
    \/ \E c \in clients : DeleteClient(c) /\ AppOnly

SpecClients == Init /\ [][NextClients]_vars

\* ---- SpecQuery: clients come and go, subscriptions are created, days pass.
NextQuery ==
    \/ AddValidClient /\ AppOnly
    \/ \E c \in clients : DeleteClient(c) /\ AppOnly
    \/ \E c \in clients, sv \in Offered, d \in StartDates :
          AddSubscription(c, sv, d, TRUE) /\ AppOnly
    \/ Tick /\ AppOnly

SpecQuery == Init /\ [][NextQuery]_vars

\* ---- SpecService: subscriptions are created while the services are edited.
NextService ==
    \/ AddClient("Asha", "a@x", "") /\ AppOnly
    \/ \E c \in clients, sv \in Offered, filled \in BOOLEAN :
          AddSubscription(c, sv, 1 - MonthDays, filled) /\ AppOnly
    \/ \E name \in {"", "EQUITY Premium", "Intraday"}, description \in {"", "text"},
          duration \in Durations, status \in Statuses :
          AddService(name, description, duration, status) /\ AppOnly
    \/ \E sv \in Offered : \E name \in {sv.name, "EQUITY Premium"}, duration \in Durations,
          status \in Statuses :
          EditService(sv, name, sv.description, duration, status) /\ AppOnly
    \/ \E sv \in Offered : DeactivateService(sv) /\ AppOnly

SpecService == Init /\ [][NextService]_vars

\* ---- Spec: the store and the configuration are set up, then
\* send_expiry_notifications is called, several times, against them.
Setup ==
    \/ seq.clients < MaxDueClients /\ AddValidClient
    \/ \E c \in clients, whatsapp \in WhatsApps :
          EditClient(c, c.name, "", whatsapp, c.status)
    \/ /\ seq.subscriptions < MaxDueSubs
       /\ \E c \in clients, sv \in {x \in Offered : x.id = 1}, d \in StartDates \ {0 - 1 - MonthDays} :
             AddSubscription(c, sv, d, TRUE)
    \/ \E b \in BOOLEAN : SaveEmailSettings(b)
    \/ \E b \in BOOLEAN : SaveWhatsAppSettings(b)
    \/ \E b \in BOOLEAN, d \in {1, 2} : SaveNotificationSettings(b, d)

Next ==
    \/ runs = 0 /\ Setup /\ AppOnly
    \/ \E caller \in Callers : StartSend(caller, "ok") /\ AppOnly
    \/ \E smtp \in SmtpResults : SendEmail(smtp, "ok") /\ AppOnly
    \/ \E http \in HttpResults : SendWhatsApp(http, "ok") /\ AppOnly

Spec == Init /\ [][Next]_vars

\* ---- SpecFault: as Spec, with a store that may fail a statement.
NextFault ==
    \/ runs = 0 /\ Setup /\ AppOnly
    \/ \E caller \in Callers, db \in DbResults : StartSend(caller, db) /\ AppOnly
    \/ \E smtp \in SmtpResults, db \in DbResults : SendEmail(smtp, db) /\ AppOnly
    \/ \E http \in HttpResults, db \in DbResults : SendWhatsApp(http, db) /\ AppOnly

SpecFault == Init /\ [][NextFault]_vars

\* ---- SpecHistory: every operation that writes to the store, interleaved: the
\* client, service and subscription forms, the cleanup, and the dispatcher
\* with a store that may fail.
NextHistory ==
    \/ AddClient("Asha", "a@x", "") /\ AppOnly
    \/ \E c \in clients : EditClient(c, c.name, c.email, c.whatsapp, "Inactive") /\ AppOnly
    \/ \E c \in clients : DeleteClient(c) /\ AppOnly
    \/ \E confirmed \in BOOLEAN : RemoveInactiveClients(confirmed) /\ AppOnly
    \/ AddService("Intraday", "text", MonthDays, "Active") /\ AppOnly
    \/ \E sv \in Offered \ DefaultRows :
          EditService(sv, sv.name, sv.description, YearDays, "Inactive") /\ AppOnly
    \/ \E sv \in Offered \cap DefaultRows : DeactivateService(sv) /\ AppOnly
    \/ \E c \in clients, sv \in {x \in Offered : x.id = 1} :
          AddSubscription(c, sv, 1 - MonthDays, TRUE) /\ AppOnly
    \/ ~config.email.enabled /\ SaveEmailSettings(TRUE) /\ AppOnly
    \/ \E db \in DbResults : StartSend("job", db) /\ AppOnly
    \/ SendEmail("ok", "ok") /\ AppOnly
    \/ SendWhatsApp("200", "ok") /\ AppOnly

SpecHistory == Init /\ [][NextHistory]_vars

\* ---- SpecCustom: clients and a subscription are registered and the channels
\* switched on; reminders are sent by the dispatcher and messages by the
\* custom-notification form.
NotificationTypes == {"Email Only", "WhatsApp Only", "Both Email & WhatsApp"}

NextCustom ==
    \/ runs = 0 /\ Setup /\ AppOnly
    \/ StartSend("job", "ok") /\ AppOnly
    \/ \E smtp \in SmtpResults : SendEmail(smtp, "ok") /\ AppOnly
    \/ \E http \in HttpResults : SendWhatsApp(http, "ok") /\ AppOnly
    \/ \E targets \in SUBSET clients, notification_type \in NotificationTypes,
          smtp \in SmtpResults, http \in HttpResults :
          SendCustomNotification(targets, notification_type, smtp, http) /\ AppOnly

SpecCustom == Init /\ [][NextCustom]_vars

\* ---- SpecActive: subscriptions that end on the day before the first day of
\* the model, on its first day and on its second day are created, clients are
\* deleted, services deactivated, and days pass.
ActiveStartDates == {0 - 1 - MonthDays, 0 - MonthDays, 1 - MonthDays}

NextActive ==
    \/ AddValidClient /\ AppOnly
    \/ \E c \in clients : DeleteClient(c) /\ AppOnly
    \/ \E c \in clients, sv \in {x \in Offered : x.id = 1}, d \in ActiveStartDates :
          AddSubscription(c, sv, d, TRUE) /\ AppOnly
    \/ \E sv \in {x \in Offered : x.id = 1} : DeactivateService(sv) /\ AppOnly
    \/ Tick /\ AppOnly

SpecActive == Init /\ [][NextActive]_vars

\* ---- SpecSeed: services are added, edited and deleted in the settings page,
\* and new DatabaseManager objects are created on the store.
NextSeed ==
    \/ \E status \in Statuses : AddService("Intraday", "text", MonthDays, status) /\ AppOnly
    \/ \E sv \in Offered : \E name \in {sv.name, "Swing"}, status \in Statuses :
          EditService(sv, name, sv.description, YearDays, status) /\ AppOnly
    \/ \E sv \in Offered : DeactivateService(sv) /\ AppOnly
    \/ NewDatabaseManager /\ AppOnly

SpecSeed == Init /\ [][NextSeed]_vars

\* ---- SpecLive: two clients with a subscription that ends tomorrow are
\* registered, then send_expiry_notifications is called; an SMTP session may
\* never return.  The code of a call that is not blocked goes on (weak fairness
\* of the steps of the loop).
LiveSetup ==
    \/ \E email \in Emails \ {""}, whatsapp \in WhatsApps :
          ~EmailTaken(email, 0) /\ AddClient("Asha", email, whatsapp)
    \/ \E c \in clients, sv \in {x \in Offered : x.id = 1} :
          /\ \A s \in subscriptions : s.client_id /= c.id
          /\ AddSubscription(c, sv, 1 - MonthDays, TRUE)
    \/ ~config.email.enabled /\ SaveEmailSettings(TRUE)
    \/ ~config.whatsapp.enabled /\ SaveWhatsAppSettings(TRUE)

LoopStep ==
    \/ \E smtp \in SmtpResults : SendEmail(smtp, "ok") /\ AppOnly
    \/ SendEmailBlocks /\ AppOnly
    \/ \E http \in HttpResults : SendWhatsApp(http, "ok") /\ AppOnly

NextLive ==
    \/ runs = 0 /\ LiveSetup /\ AppOnly
    \/ StartSend("job", "ok") /\ AppOnly
    \/ LoopStep

SpecLive == Init /\ [][NextLive]_vars /\ WF_vars(LoopStep)

\* ---- SpecConfig: ConfigManager objects are created over the config file that
\* is there, set values and save.
PartialFile ==
    JsonFile({ Entry(<<"email">>, "dict", ""),
               Entry(<<"email", "enabled">>, "bool", "true"),
               Entry(<<"theme">>, "str", "dark") })

ConflictFile == JsonFile({ Entry(<<"email">>, "str", "off") })

Files == {EmptyFile, MalformedFile, PartialFile, ConflictFile}

\* The set calls made: a setting of the defaults, a setting below a new
\* section, and a path that leads below a number.
SetInputs ==
    { << <<"email", "enabled">>, Scalar("bool", "true") >>,
      << <<"ui", "theme">>, Scalar("str", "dark") >>,
      << <<"email", "smtp_port", "x">>, Scalar("str", "dark") >> }

ConfigOnly == UNCHANGED <<appvars, schedvars>>

NextConfig ==
    \/ \E f \in Files : FoundFile(f) /\ ConfigOnly
    \/ \E i \in Instances : NewConfigManager(i) /\ ConfigOnly
    \/ \E i \in Instances, in \in SetInputs : Set(i, in[1], in[2]) /\ ConfigOnly
    \/ \E i \in Instances : Save(i) /\ ConfigOnly

SpecConfig == Init /\ [][NextConfig]_vars

\* ---- SpecScheduler: a client with a subscription that ends tomorrow is
\* registered, then the scheduler process runs, is interrupted and restarted
\* while time passes; the store may fail a statement.
Registered ==
    \/ clients = {} /\ AddClient("Asha", "a@x", "")
    \/ /\ subscriptions = {}
       /\ \E c \in clients, sv \in {x \in Offered : x.id = 1} :
             AddSubscription(c, sv, 1 - MonthDays, TRUE)
    \/ ~config.email.enabled /\ SaveEmailSettings(TRUE)

NextScheduler ==
    \/ sched.starts = 0 /\ Registered /\ AppOnly
    \/ StartScheduler /\ UNCHANGED <<appvars, cfgvars>>
    \/ \E db \in DbResults : RunPending(db) /\ UNCHANGED cfgvars
    \/ \E smtp \in SmtpResults, db \in DbResults : SendEmail(smtp, db) /\ AppOnly
    \/ \E http \in HttpResults, db \in DbResults : SendWhatsApp(http, db) /\ AppOnly
    \/ JobEnds /\ UNCHANGED <<appvars, cfgvars>>
    \/ Interrupt /\ UNCHANGED <<appvars, cfgvars>>
    \/ Sleep /\ UNCHANGED cfgvars

SpecScheduler == Init /\ [][NextScheduler]_vars

\* ---- SpecSnapshot: a client has a subscription that ends tomorrow; a dashboard
\* session saves settings to the config file while the scheduler process is
\* started, polls, runs its job, is interrupted and started again.  The
\* application state is that of the scheduler process.
SnapshotInputs ==
    { << <<"email", "enabled">>, Scalar("bool", "true") >>,
      << <<"notifications", "days_before_expiry">>, Scalar("int", "2") >>,
      << <<"notifications", "send_time">>, Scalar("str", "10:00") >> }

NextSnapshot ==
    \/ clients = {} /\ AddClient("Asha", "a@x", "") /\ AppOnly
    \/ /\ subscriptions = {}
       /\ \E c \in clients, sv \in {x \in Offered : x.id = 1} :
             AddSubscription(c, sv, 1 - MonthDays, TRUE)
       /\ AppOnly
    \/ mgr[Dashboard].root = 0 /\ NewConfigManager(Dashboard) /\ ConfigOnly
    \/ \E in \in SnapshotInputs :
          /\ mgr[Dashboard].root /= 0
          /\ get(heap, mgr[Dashboard].root, in[1], None).value /= in[2]
          /\ SaveSetting(Dashboard, in[1], in[2])
          /\ ConfigOnly
    \/ subscriptions /= {} /\ RunScheduler
    \/ RunPending("ok") /\ UNCHANGED cfgvars
    \/ SendEmail("ok", "ok") /\ AppOnly
    \/ SendWhatsApp("200", "ok") /\ AppOnly
    \/ JobEnds /\ UNCHANGED <<appvars, cfgvars>>
    \/ Interrupt /\ UNCHANGED <<appvars, cfgvars>>
    \/ Sleep /\ UNCHANGED cfgvars

SpecSnapshot == Init /\ [][NextSnapshot]_vars
----------------------------------------------------------------------------
(***************************************************************************)
(* Properties                                                              *)
(***************************************************************************)

\* The last send_expiry_notifications call has returned to its caller.
Finished == run.pc = "idle" /\ run.result = "returned"

\* The notification rows and the transport calls of the current (or last) call.
Appended == SubSeq(notifications, run.base + 1, Len(notifications))
Attempted == outbox

\* The (subscription, channel) pairs of the rows, in the order of the loop: a
\* row's email pair when email is enabled and the client has an email address,
\* then its WhatsApp pair when WhatsApp is enabled and the client has a number.
RECURSIVE PairsOf(_)
PairsOf(rows) ==
    IF rows = <<>> THEN <<>>
    ELSE LET r == Head(rows)
             e == IF config.email.enabled /\ r.email /= ""
                  THEN << [sub |-> r.id, client_id |-> r.client_id,
                           service_name |-> r.service_name,
                           channel |-> "email", to |-> r.email] >>
                  ELSE <<>>
             w == IF config.whatsapp.enabled /\ r.whatsapp /= ""
                  THEN << [sub |-> r.id, client_id |-> r.client_id,
                           service_name |-> r.service_name,
                           channel |-> "whatsapp", to |-> r.whatsapp] >>
                  ELSE <<>>
         IN  e \o w \o PairsOf(Tail(rows))

\* The log row at position k is the row of the pair p.
RowOfPair(row, p) ==
    /\ row.client_id = p.client_id
    /\ row.service_name = p.service_name
    /\ row.notification_type = p.channel

C2_KRowsPerPair ==
    Idle =>
        LET want == IF config.notifications.enabled
                    THEN PairsOf(get_expiring_subscriptions(
                                     config.notifications.days_before_expiry))
                    ELSE <<>>
            n == Len(want)
        IN  /\ Len(notifications) = runs * n
            /\ \A j \in 0..(runs - 1) : \A k \in 1..n :
                  RowOfPair(notifications[j * n + k], want[k])

C2_EarlierRowsKept ==
    \A k \in 1..Len(notifications) :
        Len(notifications') >= k /\ notifications'[k] = notifications[k]

C2_NoDeduplication == []C2_KRowsPerPair /\ [][C2_EarlierRowsKept]_vars

\* C2 witness: two calls were made on the same day, each logged the same pair,
\* and the two rows of a pair differ in status (they are independent rows).
C2_Witness ==
    /\ Idle /\ runs = 2
    /\ Len(notifications) >= 2
    /\ Len(notifications) = 2 * run.base
    /\ RowOfPair(notifications[run.base + 1],
                 [client_id |-> notifications[1].client_id,
                  service_name |-> notifications[1].service_name,
                  channel |-> notifications[1].notification_type])
    /\ notifications[1].sent_date = notifications[run.base + 1].sent_date
    /\ notifications[1].status /= notifications[run.base + 1].status

\* The pairs whose part of the loop is behind the call's position.
PairsBehind ==
    IF run.pc = "email" THEN PairsOf(SubSeq(run.rows, 1, run.i - 1))
    ELSE IF run.pc = "whatsapp"
    THEN LET upto == PairsOf(SubSeq(run.rows, 1, run.i))
             last == PairsOf(<<run.rows[run.i]>>)
         IN  IF last /= <<>> /\ last[Len(last)].channel = "whatsapp"
             THEN SubSeq(upto, 1, Len(upto) - 1) ELSE upto
    ELSE PairsOf(run.rows)

TransportFailed(t) ==
    \/ t.channel = "email" /\ t.result /= "ok"
    \/ t.channel = "whatsapp" /\ t.result /= "200"

C8_StatusReflectsTransport ==
    /\ Len(Appended) = Len(Attempted)
    /\ \A k \in 1..Len(Appended) :
          LET r == Appended[k]
              t == Attempted[k]
          IN  /\ r.notification_type = t.channel
              /\ r.status \in {"sent", "failed"}
              /\ r.status = "sent" <=>
                    \/ t.channel = "whatsapp" /\ t.result = "200"
                    \/ t.channel = "email" /\ t.result = "ok"

\* C8 witness: in one call the SMTP session ended without an exception and the
\* row says 'sent', and the POST was answered with a status other than 200 and
\* the row says 'failed'.
C8_Witness ==
    /\ Finished /\ Len(Appended) = 2
    /\ Attempted[1].channel = "email" /\ Attempted[1].result = "ok"
    /\ Appended[1].status = "sent"
    /\ Attempted[2].channel = "whatsapp" /\ Attempted[2].result = "500"
    /\ Appended[2].status = "failed"

\* C10: with notifications.enabled false a call is a no-op: it returns at once,
\* makes no transport call and writes nothing to the store.
C10_CallWhenDisabled ==
    (runs' = runs + 1 /\ ~config.notifications.enabled) =>
        /\ UNCHANGED <<today, store, config>>
        /\ outbox' = <<>>
        /\ run'.pc = "idle" /\ run'.result = "returned"

C10_DisabledIsNoOp == [][C10_CallWhenDisabled]_vars

\* C10 witness: a call has returned with notifications disabled while a
\* subscription of a client with both contact values was expiring and both
\* channels were enabled; nothing was sent or logged.
C10_Witness ==
    /\ Finished /\ runs = 1
    /\ ~config.notifications.enabled
    /\ config.email.enabled /\ config.whatsapp.enabled
    /\ \E k \in 1..Len(get_expiring_subscriptions(config.notifications.days_before_expiry)) :
          LET r == get_expiring_subscriptions(config.notifications.days_before_expiry)[k]
          IN  r.email /= "" /\ r.whatsapp /= ""
    /\ notifications = <<>> /\ outbox = <<>>
\* The days asked for: before today, today, and after today.
QueryDays == {0 - 2, 0 - 1, 0, 1, 2}

Ids(rows) == { rows[k].id : k \in 1..Len(rows) }

\* C3 (as amended): for every days >= 0, get_expiring_subscriptions(days) returns,
\* once each, exactly the subscriptions whose client row and service row exist,
\* whose status is Active and whose end date equals today + days; for a negative
\* days it returns nothing.
C3_ExactDayMatchOfJoinedRows ==
    \A d \in QueryDays :
        LET got == get_expiring_subscriptions(d)
        IN  /\ Len(got) = Cardinality(Ids(got))
            /\ Ids(got) =
                 IF d < 0 THEN {}
                 ELSE { x.id : x \in
                          { s \in subscriptions :
                              /\ s.status = "Active"
                              /\ s.end_date = today + d
                              /\ \E c \in clients : c.id = s.client_id
                              /\ \E sv \in services : sv.id = s.service_id } }

\* C3 as stated: for every days value the result is exactly the subscriptions
\* whose status is Active and whose end date equals today + days.
C3_AsStated ==
    \A d \in QueryDays :
        Ids(get_expiring_subscriptions(d)) =
            { x.id : x \in { s \in subscriptions :
                               s.status = "Active" /\ s.end_date = today + d } }

\* C3 witness: one subscription ends tomorrow and another the day after; the
\* query for 1 day returns the first and not the second.
C3_Witness ==
    \E s1, s2 \in subscriptions :
        /\ s1.end_date = today + 1 /\ s2.end_date = today + 2
        /\ \E c \in clients : c.id = s1.client_id
        /\ \E c \in clients : c.id = s2.client_id
        /\ Ids(get_expiring_subscriptions(1)) = {s1.id}
        /\ Ids(get_expiring_subscriptions(2)) = {s2.id}

\* C4: no two client rows share an email; a step never inserts a row whose email
\* a row of the table already has, and the add that is refused for that reason
\* leaves the table (and its id counter) as it was.
C4_UniqueEmails == \A c, d \in clients : c.email = d.email => c = d

C4_AddStep ==
    /\ ui' = "error: email exists" => UNCHANGED <<clients, seq>>
    /\ \A c \in clients' :
          (c.id \notin { d.id : d \in clients }) =>
              ~\E d \in clients : d.email = c.email

C4_DuplicateEmailRefused == []C4_UniqueEmails /\ [][C4_AddStep]_vars

\* C4 witness: an add was refused because the one client of the table has the
\* email; the table still holds that one row.
C4_Witness ==
    /\ ui = "error: email exists"
    /\ Cardinality(clients) = 1
    /\ seq.clients = 1

\* C5: a subscription is stored with end date = start date + the duration_days
\* its service has at that moment, and no step changes or removes a stored
\* subscription row, whatever is done to the service afterwards.
C5_Step ==
    /\ \A s \in subscriptions : s \in subscriptions'
    /\ \A s \in subscriptions' \ subscriptions :
          \E sv \in services :
              sv.id = s.service_id /\ s.end_date = s.start_date + sv.duration_days

C5_EndDateFixedAtCreation == [][C5_Step]_vars

\* C5 witness: a subscription created for a 30-day service, whose service now
\* has another duration and is deactivated; its end date is still start + 30.
C5_Witness ==
    \E s \in subscriptions : \E sv \in services :
        /\ sv.id = s.service_id
        /\ s.end_date = s.start_date + MonthDays
        /\ sv.duration_days /= MonthDays
        /\ sv.status = "Inactive"

\* C6: no exception propagates out of send_expiry_notifications, whatever fails.
C6_NoExceptionLeavesTheCall == run.result /= "raised"

\* The message rendered for the pair p of the current call.
Rendered(p) ==
    LET r == CHOOSE x \in { run.rows[k] : k \in 1..Len(run.rows) } : x.id = p.sub
    IN  IF p.channel = "email" THEN create_email_message(r)
        ELSE create_whatsapp_message(r)

\* C9: every row the dispatcher writes holds the first min(500, length)
\* characters of the message rendered for its pair, so a non-empty text.
C9_RowHoldsTruncatedMessage ==
    (Finished /\ config.notifications.enabled) =>
        \A k \in 1..Len(Appended) :
            LET m == Rendered(PairsOf(run.rows)[k])
            IN  /\ Appended[k].message = SubSeq(m, 1, Min(MessageLimit, Len(m)))
                /\ Appended[k].message /= <<>>

\* The settings of DEFAULT_CONFIG: its leaves.
DefaultLeaves == {e \in DefaultTree : e.kind /= "dict"}

\* One of the two paths leads through the other.
Related(p, q) ==
    LET n == Min(Len(p), Len(q)) IN SubSeq(p, 1, n) = SubSeq(q, 1, n)

\* What a ConfigManager constructed now over the file f would hold.
FreshOver(h, f) ==
    LET module == json_load(h, DefaultTree, <<>>)
    IN  load_config(module.heap, f, module.addr)

\* A set call has just returned.
SetReturned == call.op = "set" /\ ~call.raised

\* The step of a set call that returns: no setting of the defaults off its
\* path changes in the caller's tree.
C11_SetStep ==
    (call'.op = "set" /\ used'.sets = used.sets + 1 /\ ~call'.raised) =>
        \A e \in DefaultLeaves :
            ~Related(e.path, call'.path) =>
                get(heap', mgr[call'.by].root, e.path, None)
                    = get(heap, mgr[call'.by].root, e.path, None)

\* Were save_config() to follow now, a ConfigManager constructed afresh over
\* the file would answer get(path) with the value set, and would hold every
\* setting of the defaults the caller's tree holds off that path.
C11_RoundTrip ==
    SetReturned =>
        LET root  == mgr[call.by].root
            fresh == FreshOver(heap, save_config(heap, root))
        IN  /\ ~fresh.raised
            /\ get(fresh.heap, fresh.root, call.path, None) = Returned(call.value)
            /\ \A e \in DefaultLeaves :
                  (~Related(e.path, call.path)
                        /\ get(heap, root, e.path, None) = Returned(Scalar(e.kind, e.s)))
                     => get(fresh.heap, fresh.root, e.path, None)
                            = Returned(Scalar(e.kind, e.s))

C12_LoadNeverRaises ==
    (call.op = "load" /\ file.state \in {"missing", "empty", "malformed"}) =>
        /\ ~call.raised
        /\ json_dump(heap, mgr[call.by].root, <<>>) = DefaultTree

\* C13: the tree load_config returns for a JSON file holds, for every key path,
\* the file's value where the file has one (keys unknown to the defaults
\* included) and the default value where the file has none.
C13_DeepMergeForEveryPath ==
    (call.op = "load" /\ ~call.raised /\ mgr[call.by].from.state = "json") =>
        LET user   == mgr[call.by].from.doc
            result == json_dump(heap, mgr[call.by].root, <<>>)
        IN  /\ \A e \in user : e \in result
            /\ \A e \in DefaultLeaves :
                  (\A u \in user : u.path /= e.path) => e \in result

\* The paths asked for: settings that are there, keys that are not, and paths
\* that go on below a number or a string.
GetPaths ==
    { <<"email", "enabled">>, <<"ui", "theme">>, <<"nothing">>,
      <<"email", "smtp_port", "x">>, <<"email", "smtp_server", "x">>,
      <<"email", "smtp_server", "smtp">> }

\* The default handed to get.
Fallback == Scalar("str", "nothing")

\* The path leads through dicts to a cell of the tree.
RECURSIVE Resolves(_, _, _)
Resolves(h, cell, keys) ==
    IF keys = <<>> THEN TRUE
    ELSE /\ cell.kind = "dict"
         /\ Head(keys) \in DOMAIN h[cell.a]
         /\ Resolves(h, h[cell.a][Head(keys)], Tail(keys))

\* C14: a set call creates the missing levels and returns, after which
\* get(path) gives the value set; and get(path, default) gives the default,
\* raising nothing, for every path that does not resolve in the tree.
C14_DottedPathAddressing ==
    /\ call.op = "set" =>
          /\ ~call.raised
          /\ get(heap, mgr[call.by].root, call.path, None) = Returned(call.value)
    /\ \A i \in Instances : \A path \in GetPaths :
          (mgr[i].root /= 0 /\ ~Resolves(heap, Ref(mgr[i].root), path)) =>
              get(heap, mgr[i].root, path, Fallback) = Returned(Fallback)

\* C15: after a save the file equals the tree of the instance that saved, so
\* whatever another instance had saved before and the last saver's tree does
\* not hold is gone from the file.
C15_LastWriteWins ==
    call.op = "save" =>
        LET tree == json_dump(heap, mgr[call.by].root, <<>>)
        IN  /\ file = JsonFile(tree)
            /\ \A i \in Instances \ {call.by} :
                  \A e \in mgr[i].saved.doc : e \notin tree => e \notin file.doc

\* C15 witness: both instances started without a file; the first enabled email
\* and saved, the second set ui.theme and saved last: the file holds ui.theme
\* and email.enabled false, the first saver's change is lost.
C15_Witness ==
    /\ call.op = "save" /\ call.by = 2
    /\ mgr[1].root /= 0 /\ mgr[2].root /= 0
    /\ mgr[1].from = NoFile /\ mgr[2].from = NoFile
    /\ Entry(<<"email", "enabled">>, "bool", "true") \in mgr[1].saved.doc
    /\ Entry(<<"ui", "theme">>, "str", "dark") \notin mgr[1].saved.doc
    /\ Entry(<<"ui", "theme">>, "str", "dark") \in file.doc
    /\ Entry(<<"email", "enabled">>, "bool", "false") \in file.doc
    /\ Entry(<<"email", "enabled">>, "bool", "true") \notin file.doc

\* The send time of the current day.
SendTimeToday == [day |-> today, slot |-> SendAt]

\* The invocations of the job made on day d by the scheduler process number s.
FiresOf(s, d) == {k \in 1..Len(fires) : fires[k].start = s /\ fires[k].day = d}

\* C16: a scheduler process that has been running since before the send time of
\* a day and has polled at or after it has invoked send_expiry_notifications on
\* that day, and no process invokes it twice on one day.
C16_OnceOnTheDay ==
    /\ \A k \in 1..Len(fires) : Cardinality(FiresOf(fires[k].start, fires[k].day)) = 1
    /\ (/\ sched.state = "up" /\ sched.polled
        /\ Before(sched.since, SendTimeToday)
        /\ ~Before(Now, SendTimeToday))
          => Cardinality(FiresOf(sched.starts, today)) = 1

\* C16 witness: the process was started before the send time, the job ran (a
\* notification was logged), and a later poll of the same day did not run it again.
C16_Witness ==
    /\ sched.state = "up" /\ sched.polled /\ sched.starts = 1
    /\ sched.since = [day |-> today, slot |-> 0]
    /\ clock > SendAt
    /\ Cardinality(FiresOf(1, today)) = 1
    /\ runs = 1 /\ Len(notifications) = 1

\* C17: a scheduler process started at or after the send time of a day does not
\* invoke the job on that day, and however the process is stopped and started
\* again the job is invoked at most once on a day.
C17_RestartsNeverDoubleFire ==
    /\ \A k \in 1..Len(fires) :
          ~(fires[k].since.day = fires[k].day /\ fires[k].since.slot >= SendAt)
    /\ \A k1, k2 \in 1..Len(fires) : fires[k1].day = fires[k2].day => k1 = k2

\* C17 witness: the first process ran the job and was interrupted; the second
\* was started the same day after the send time and has polled: still one run.
C17_Witness ==
    /\ sched.state = "up" /\ sched.polled /\ sched.starts = 2
    /\ sched.since.day = today /\ sched.since.slot >= SendAt
    /\ Len(fires) = 1 /\ fires[1].day = today /\ fires[1].start = 1
    /\ sched.next_run = [day |-> today + 1, slot |-> SendAt]

\* C18: no error of a scheduled dispatch ends the scheduler loop.
C18_OnlyInterruptEndsTheLoop == sched.state /= "dead"

C19_Step ==
    /\ \A s \in subscriptions : s \in subscriptions'
    /\ Len(notifications') >= Len(notifications)
    /\ SubSeq(notifications', 1, Len(notifications)) = notifications

\* C19: no step of the program deletes or changes a subscription row or a
\* notification row; the notification log only grows at its end.
C19_ImmutableHistory == [][C19_Step]_vars

\* C19 witness: the dispatcher has logged in two runs, then the client of the
\* subscription was deleted and its service deactivated; the rows are there.
C19_Witness ==
    /\ runs = 2 /\ Len(notifications) = 2
    /\ \E s \in subscriptions :
          /\ \A c \in clients : c.id /= s.client_id
          /\ \E sv \in services : sv.id = s.service_id /\ sv.status = "Inactive"
          /\ \A k \in 1..Len(notifications) : notifications[k].client_id = s.client_id

C20_Step ==
    /\ \A sv \in services : \E x \in services' : x.id = sv.id
    /\ \A sv \in services :
          DeactivateService(sv) => [sv EXCEPT !.status = "Inactive"] \in services'

\* Every subscription's service_id is the id of a services row.
C20_ServiceRowExists ==
    \A s \in subscriptions : \E sv \in services : sv.id = s.service_id

\* C20: deleting a service sets its status to Inactive and keeps the row, no
\* step removes a services row, and every subscription's service_id refers to
\* an existing services row.
C20_SoftDeleteKeepsReferences == []C20_ServiceRowExists /\ [][C20_Step]_vars

\* C20 witness: the service of a subscription has been deleted in the settings
\* page: its row is there, Inactive, and is not offered any more.
C20_Witness ==
    \E s \in subscriptions : \E sv \in services \ get_services :
        /\ sv.id = s.service_id
        /\ sv.id = 1
        /\ sv.name = "EQUITY Premium"

\* C21: a uniqueness violation in a form handler is caught and shown as a
\* message: no handler ends with the exception of the failed statement.
C21_ViolationIsCaught == ui /= "exception"

\* C22: every call of a transport is followed by one appended log row of its
\* channel, whether the dispatcher or the custom-notification form made it.
C22_RowAfterEveryAttempt ==
    /\ Len(Appended) = Len(Attempted)
    /\ \A k \in 1..Len(Appended) : Appended[k].notification_type = Attempted[k].channel

\* C23: get_active_subscriptions returns, once each and in ascending order of
\* end date, exactly the subscriptions (with their client and service rows)
\* whose status is Active and whose end date is today or later.
C23_ActiveFromTodayOn ==
    LET got == get_active_subscriptions
    IN  /\ Len(got) = Cardinality(Ids(got))
        /\ Ids(got) = { x.id : x \in
                          { s \in subscriptions :
                              /\ s.status = "Active"
                              /\ s.end_date >= today
                              /\ \E c \in clients : c.id = s.client_id
                              /\ \E sv \in services : sv.id = s.service_id } }
        /\ \A k \in 1..(Len(got) - 1) : got[k].end_date <= got[k + 1].end_date

\* C23 witness: of two subscriptions of clients that exist, the one that ends
\* today is returned and the one that ended yesterday is not.
C23_Witness ==
    \E s1, s2 \in subscriptions :
        /\ s1.end_date = today /\ s2.end_date = today - 1
        /\ \E c \in clients : c.id = s1.client_id
        /\ \E c \in clients : c.id = s2.client_id
        /\ Ids(get_active_subscriptions) = {s1.id}

\* The counters of a store on which nothing was ever inserted.
NoRows == [clients |-> 0, services |-> 0, subscriptions |-> 0]

\* C24: init_database on an empty store yields exactly the five default
\* services, and on the store of every reachable state it adds no service row.
C24_SeedingIsIdempotent ==
    /\ init_database({}, NoRows).services = SeededServices
    /\ Cardinality(SeededServices) = Len(default_services)
    /\ init_database(services, seq) = [services |-> services, seq |-> seq]

\* C24 witness: a service was added, default services were renamed and
\* deleted, and a DatabaseManager was created after that: six rows.
C24_Witness ==
    /\ ui = "started"
    /\ Cardinality(services) = Len(default_services) + 1
    /\ \E sv \in services : sv.id = 1 /\ sv.name = "Swing"
    /\ \E sv \in services : sv.id = 5 /\ sv.status = "Inactive"

\* A send_expiry_notifications call is in its loop.
InLoop == run.pc \in {"email", "whatsapp"}

\* The call is inside an SMTP session that does not return.
Blocked == run.pc = "blocked"

\* C25: a call in its loop comes to its end (each row handled once) unless an
\* SMTP session never returns; a call blocked in one stays there, and no
\* transport call and no log row follows.
C25_TerminatesUnlessSmtpBlocks ==
    /\ InLoop ~> ((Finished /\ run.i = Len(run.rows)) \/ Blocked)
    /\ [][Blocked => UNCHANGED <<run, outbox, notifications>>]_vars

\* C25 witness: the SMTP session for the first of two expiring subscriptions
\* never returned: one transport call, no row, the second subscription untouched.
C25_Witness ==
    /\ Blocked
    /\ Len(run.rows) = 2 /\ run.i = 1
    /\ Len(outbox) = 1 /\ Appended = <<>>

\* The subscriptions whose client row has been deleted.
Orphans == { s \in subscriptions : \A c \in clients : c.id /= s.client_id }

\* No orphan is returned by get_active_subscriptions or by
\* get_expiring_subscriptions, and no row of a dispatcher call is an orphan's.
C26_OrphansAreNotReturned ==
    /\ \A s \in Orphans :
          /\ s.id \notin Ids(get_active_subscriptions)
          /\ \A days \in 0..MonthDays : s.id \notin Ids(get_expiring_subscriptions(days))
    /\ \A k \in 1..Len(run.rows) : \A s \in Orphans : run.rows[k].id /= s.id

\* A step that removes client rows leaves every subscription and notification
\* row, an orphan stays one, and a transport call or a log row is made only by
\* a dispatcher call for the row it is at.
C26_Step ==
    /\ clients' \subseteq clients /\ clients' /= clients
          => UNCHANGED <<subscriptions, notifications>>
    /\ Orphans \subseteq Orphans'
    /\ Len(outbox') > Len(outbox) \/ notifications' /= notifications
          => /\ run.pc \in {"email", "whatsapp"}
             /\ \A s \in Orphans' : run.rows[run.i].id /= s.id

\* C26: deleting a client (one client, or the Inactive ones) keeps its
\* subscription and notification rows; from then on its subscriptions are in no
\* result of the two queries and get no transport call and no log row.
C26_OrphansStayAndAreSkipped == []C26_OrphansAreNotReturned /\ [][C26_Step]_vars

\* C26 witness: a client was reminded and then deleted; its subscription (it ends
\* tomorrow) and the log row are there, and the next call found nothing to send.
C26_Witness ==
    /\ runs = 2 /\ Finished /\ run.rows = <<>> /\ outbox = <<>>
    /\ config.email.enabled
    /\ run.base = Len(notifications)
    /\ \E s \in Orphans :
          /\ s.end_date = today + 1 /\ s.status = "Active"
          /\ \E k \in 1..Len(notifications) : notifications[k].client_id = s.client_id

\* C27: the DEFAULT_CONFIG of a ConfigManager's program still holds the
\* compiled-in values, whatever was set on the ConfigManager.
C27_DefaultsKeepTheirValues ==
    \A i \in Instances :
        mgr[i].root /= 0 => json_dump(heap, mgr[i].defaults, <<>>) = DefaultTree

\* C28: with notifications enabled, a press of a "send reminders now" button
\* makes send_expiry_notifications work on exactly the subscriptions the page
\* displays, the rows of get_expiring_subscriptions(1), whose number the success
\* message reports.
C28_ButtonSendsWhatItShows ==
    [][StartSend("button", "ok") /\ config.notifications.enabled
          => run'.rows = get_expiring_subscriptions(1)]_vars

\* The scheduler process is in its loop.
SchedulerRuns == sched.state \in {"up", "job"}

\* The configuration the scheduler's dispatch works on and the time of day of
\* its job are what its ConfigManager's tree says.
C29_WorksOnItsTree ==
    SchedulerRuns =>
        /\ config = ConfigView(heap, mgr[SchedulerProcess].root)
        /\ sched.next_run.slot =
              SlotOf(get(heap, mgr[SchedulerProcess].root,
                         <<"notifications", "send_time">>, None).value.s)

\* While the scheduler process runs, no step (a save to the config file among
\* them) changes the configuration of its dispatch or the time of day of its job.
C29_Step ==
    SchedulerRuns /\ SchedulerRuns' =>
        /\ config' = config
        /\ sched'.next_run.slot = sched.next_run.slot
        /\ sched'.starts = sched.starts

\* C29: a running scheduler works on the configuration it loaded at its start:
\* a later save to the config file changes neither when it fires nor what its
\* dispatch does, until the process is started again.
C29_SnapshotUntilRestart == []C29_WorksOnItsTree /\ [][C29_Step]_vars

\* C29 witness: email was enabled before the scheduler started; then the
\* dashboard saved days_before_expiry = 2 to the file; the scheduler fired at
\* the old send time and reminded, one day ahead, the client whose subscription
\* ends tomorrow.
C29_Witness ==
    /\ sched.state = "up" /\ sched.starts = 1
    /\ Len(fires) = 1 /\ Len(notifications) = 1
    /\ config.notifications.days_before_expiry = DefaultDaysBefore
    /\ file.state = "json"
    /\ Entry(<<"notifications", "days_before_expiry">>, "int", "2") \in file.doc
    /\ mgr[Dashboard].saved = file

\* Every subscription row has the status Active.
C30_AllActive == \A s \in subscriptions : s.status = "Active"

\* No step changes the status of a subscription row.
C30_Step ==
    \A s \in subscriptions : \A t \in subscriptions' : t.id = s.id => t.status = s.status

\* C30: every subscription row has the status Active in every reachable state,
\* and no operation changes the status of a subscription.
C30_StatusIsAlwaysActive == []C30_AllActive /\ [][C30_Step]_vars

\* C30 witness: the client of a subscription was made Inactive, its service was
\* deleted in the settings page and a dispatch has run; the subscription's
\* status is still Active.
C30_Witness ==
    /\ runs > 0 /\ Finished
    /\ \E s \in subscriptions :
          /\ s.status = "Active"
          /\ \E c \in clients : c.id = s.client_id /\ c.status = "Inactive"
          /\ \E sv \in services : sv.id = s.service_id /\ sv.status = "Inactive"
====
